---- MODULE Spec2Model ----
(***************************************************************************)
(* scrummage: a thin abstraction over OS process scheduling priorities.    *)
(*                                                                         *)
(* The module models                                                       *)
(*   - the two platform codecs of Priority (src/unix.rs, src/windows.rs)   *)
(*     and the public wrapper of src/lib.rs,                               *)
(*   - the Process handle (priority / set_priority) against a model of the *)
(*     kernel calls it makes,                                              *)
(*   - the increment computation of the `nice` front-end (src/bin/nice.rs).*)
(*                                                                         *)
(* A Priority value is modelled by the integer it wraps: the niceness on   *)
(* the niceness variant, the DWORD priority class on the class variant.    *)
(***************************************************************************)
EXTENDS Integers, Sequences, FiniteSets, TLC

VARIABLES platform, p, q, it, dir, via,
          target, cred, os, errno, last,
          pc, profile, n, increment, child_code, exit_code

vars == <<platform, p, q, it, dir, via,
          target, cred, os, errno, last,
          pc, profile, n, increment, child_code, exit_code>>

priority_vars == <<p, q, it, dir, via>>
process_vars  == <<target, cred, os, errno, last>>
cli_vars      == <<pc, profile, n, increment, child_code, exit_code>>

Platforms == {"unix", "windows"}

(***************************************************************************)
(* Platform constants.                                                     *)
(***************************************************************************)
NICE_MOST_FAVORED  == -20
NICE_LEAST_FAVORED == 19

IDLE_PRIORITY_CLASS           == 64
BELOW_NORMAL_PRIORITY_CLASS   == 16384
NORMAL_PRIORITY_CLASS         == 32
ABOVE_NORMAL_PRIORITY_CLASS   == 32768
HIGH_PRIORITY_CLASS           == 128
REALTIME_PRIORITY_CLASS       == 256
PROCESS_MODE_BACKGROUND_BEGIN == 1048576
PROCESS_MODE_BACKGROUND_END   == 2097152

ESRCH  == 3
EACCES == 13
EPERM  == 1

ERROR_ACCESS_DENIED                   == 5
ERROR_INVALID_HANDLE                  == 6
ERROR_PROCESS_MODE_ALREADY_BACKGROUND == 402
ERROR_PROCESS_MODE_NOT_BACKGROUND     == 403

(***************************************************************************)
(* src/unix.rs: Priority { niceness }                                      *)
(***************************************************************************)
RECURSIVE unix_higher(_)
unix_higher(niceness) ==
    IF niceness > NICE_MOST_FAVORED
    THEN <<niceness - 1>> \o unix_higher(niceness - 1)
    ELSE <<>>

\* a lower() that yields the niceness before stepping it
RECURSIVE unix_lower_yields_first(_)
unix_lower_yields_first(niceness) ==
    IF niceness < NICE_LEAST_FAVORED
    THEN <<niceness>> \o unix_lower_yields_first(niceness + 1)
    ELSE <<>>

RECURSIVE unix_lower(_)
unix_lower(niceness) ==
    IF niceness < NICE_LEAST_FAVORED
    THEN <<niceness + 1>> \o unix_lower(niceness + 1)
    ELSE <<>>

unix_normal == 0

\* #[derive(PartialEq, Eq, PartialOrd, Ord)] on the single field niceness
unix_cmp(a, b) ==
    IF a < b THEN "Less" ELSE IF a > b THEN "Greater" ELSE "Equal"

unix_eq(a, b) == a = b

(***************************************************************************)
(* src/windows.rs: Priority { priority }                                   *)
(***************************************************************************)
WinClasses ==
    { IDLE_PRIORITY_CLASS, BELOW_NORMAL_PRIORITY_CLASS, NORMAL_PRIORITY_CLASS,
      ABOVE_NORMAL_PRIORITY_CLASS, HIGH_PRIORITY_CLASS, REALTIME_PRIORITY_CLASS }

WinMarkers == { PROCESS_MODE_BACKGROUND_BEGIN, PROCESS_MODE_BACKGROUND_END }

\* the match of to_relative; its last arm (unreachable!) never applies to the
\* eight values above
to_relative(priority) ==
    CASE priority = IDLE_PRIORITY_CLASS         -> 0
      [] priority = BELOW_NORMAL_PRIORITY_CLASS -> 1
      [] priority \in { NORMAL_PRIORITY_CLASS, PROCESS_MODE_BACKGROUND_BEGIN,
                        PROCESS_MODE_BACKGROUND_END } -> 2
      [] priority = ABOVE_NORMAL_PRIORITY_CLASS -> 3
      [] priority = HIGH_PRIORITY_CLASS         -> 4
      [] priority = REALTIME_PRIORITY_CLASS     -> 5

\* the match inside the closure of higher(): <<n>> is Some(n), <<>> is None
win_higher_step(priority) ==
    CASE priority = IDLE_PRIORITY_CLASS         -> <<BELOW_NORMAL_PRIORITY_CLASS>>
      [] priority = BELOW_NORMAL_PRIORITY_CLASS -> <<NORMAL_PRIORITY_CLASS>>
      [] priority = NORMAL_PRIORITY_CLASS       -> <<ABOVE_NORMAL_PRIORITY_CLASS>>
      [] priority = ABOVE_NORMAL_PRIORITY_CLASS -> <<HIGH_PRIORITY_CLASS>>
      [] priority = HIGH_PRIORITY_CLASS         -> <<REALTIME_PRIORITY_CLASS>>
      [] OTHER                                  -> <<>>

win_lower_step(priority) ==
    CASE priority = BELOW_NORMAL_PRIORITY_CLASS -> <<IDLE_PRIORITY_CLASS>>
      [] priority = NORMAL_PRIORITY_CLASS       -> <<BELOW_NORMAL_PRIORITY_CLASS>>
      [] priority = ABOVE_NORMAL_PRIORITY_CLASS -> <<NORMAL_PRIORITY_CLASS>>
      [] priority = HIGH_PRIORITY_CLASS         -> <<ABOVE_NORMAL_PRIORITY_CLASS>>
      [] priority = REALTIME_PRIORITY_CLASS     -> <<HIGH_PRIORITY_CLASS>>
      [] OTHER                                  -> <<>>

RECURSIVE win_higher(_)
win_higher(priority) ==
    LET s == win_higher_step(priority)
    IN  IF s = <<>> THEN <<>> ELSE s \o win_higher(s[1])

RECURSIVE win_lower(_)
win_lower(priority) ==
    LET s == win_lower_step(priority)
    IN  IF s = <<>> THEN <<>> ELSE s \o win_lower(s[1])

win_normal == NORMAL_PRIORITY_CLASS

\* impl Ord: self.to_relative().cmp(&other.to_relative())
win_cmp(a, b) ==
    IF to_relative(a) < to_relative(b) THEN "Less"
    ELSE IF to_relative(a) > to_relative(b) THEN "Greater" ELSE "Equal"

\* #[derive(PartialEq, Eq)] on the raw DWORD
win_eq(a, b) == a = b

(***************************************************************************)
(* src/lib.rs: pub struct Priority(imp::Priority), everything delegated    *)
(***************************************************************************)
normal(plat) == IF plat = "unix" THEN unix_normal ELSE win_normal

higher(plat, x) == IF plat = "unix" THEN unix_higher(x) ELSE win_higher(x)

lower(plat, x) == IF plat = "unix" THEN unix_lower(x) ELSE win_lower(x)

cmp(plat, a, b) == IF plat = "unix" THEN unix_cmp(a, b) ELSE win_cmp(a, b)

eq(plat, a, b) == IF plat = "unix" THEN unix_eq(a, b) ELSE win_eq(a, b)

\* every value a Priority can hold: produced by normal(), by stepping, or
\* read from a process
Priorities(plat) ==
    IF plat = "unix" THEN NICE_MOST_FAVORED .. NICE_LEAST_FAVORED
    ELSE WinClasses \cup WinMarkers


(***************************************************************************)
(* The kernel, as the calls below see it.  os is the entry of the process  *)
(* the handle refers to: whether it still exists and its scheduling level  *)
(* (niceness or priority class).  cred is the caller's standing towards    *)
(* it: "root" may do anything, "owner" may not raise it beyond what an     *)
(* unprivileged user is allowed, "other" has no right to change it.        *)
(* Each call yields the set of answers the kernel can give.                *)
(***************************************************************************)
Answer(ret, code, o) == [ret |-> ret, code |-> code, os |-> o]

\* setpriority(PRIO_PROCESS, pid, niceness): 0, or -1 with errno set
setpriority(o, c, niceness) ==
    IF ~o.alive THEN { Answer(-1, ESRCH, o) }
    ELSE IF c = "other" THEN { Answer(-1, EPERM, o) }
    ELSE IF c = "owner" /\ niceness < o.level THEN { Answer(-1, EACCES, o) }
    ELSE { Answer(0, 0, [o EXCEPT !.level = niceness]) }

\* getpriority(PRIO_PROCESS, pid): the niceness, or -1 with errno set;
\* errno is left alone on success
getpriority(o) ==
    IF ~o.alive THEN { Answer(-1, ESRCH, o) }
    ELSE { Answer(o.level, 0, o) }

\* SetPriorityClass(handle, class): nonzero, or 0 with the last error set.
\* Without the privilege to raise the base priority a request for the
\* real-time class is granted as the high class.  What a background-mode
\* marker does depends on state outside this model: any answer is possible.
SetPriorityClass(o, c, class) ==
    IF ~o.alive
    THEN { Answer(0, e, o) : e \in {ERROR_ACCESS_DENIED, ERROR_INVALID_HANDLE} }
    ELSE IF c = "other" THEN { Answer(0, ERROR_ACCESS_DENIED, o) }
    ELSE IF class \in WinMarkers
    THEN { Answer(0, ERROR_PROCESS_MODE_ALREADY_BACKGROUND, o),
           Answer(0, ERROR_PROCESS_MODE_NOT_BACKGROUND, o),
           Answer(1, 0, [o EXCEPT !.level = class]) }
    ELSE IF class = REALTIME_PRIORITY_CLASS /\ c = "owner"
    THEN { Answer(1, 0, [o EXCEPT !.level = HIGH_PRIORITY_CLASS]) }
    ELSE { Answer(1, 0, [o EXCEPT !.level = class]) }

\* GetPriorityClass(handle): the class, or 0
GetPriorityClass(o) ==
    IF ~o.alive THEN { Answer(0, ERROR_INVALID_HANDLE, o) }
    ELSE { Answer(o.level, 0, o) }

(***************************************************************************)
(* src/unix.rs and src/windows.rs: Process                                 *)
(* A call's outcome: res is "Ok", "NotFound", "PermissionDenied" or        *)
(* "Abort" (unreachable!/todo! panics), val the Priority inside Ok, errno  *)
(* the thread's error indicator after the call, os the process afterwards, *)
(* code the error the kernel reported (0: none).                           *)
(***************************************************************************)
Outcome(res, val, e, a) ==
    [res |-> res, val |-> val, errno |-> e, os |-> a.os, code |-> a.code]

\* the thread's error indicator after a kernel call that answered a
errno_after(e, a) == IF a.code = 0 THEN e ELSE a.code

\* match errno() { ESRCH => .., EACCES | EPERM => .., errno => unexpected_err }
\* (unix.rs names the refusal Error::NotAllowed; lib.rs calls the type
\* Unchanged and the variant PermissionDenied)
set_priority_match(e) ==
    CASE e = ESRCH             -> "NotFound"
      [] e \in {EACCES, EPERM} -> "PermissionDenied"
      [] OTHER                 -> "Abort"

\* a set_priority that does not look at what setpriority returned
unix_set_priority_unchecked(o, c, e, priority) ==
    { Outcome("Ok", 0, errno_after(e, a), a) : a \in setpriority(o, c, priority) }

unix_set_priority(o, c, e, priority) ==
    { Outcome(IF a.ret = 0 THEN "Ok" ELSE set_priority_match(errno_after(e, a)),
              0, errno_after(e, a), a)
      : a \in setpriority(o, c, priority) }

\* a priority() that leaves the indicator as it finds it
errno_not_cleared(e) == e

\* *libc::__errno_location() = 0;
clear_errno(e) == 0

\* match errno() { 0 => Ok(Priority { niceness }), ESRCH => .., errno => .. }
priority_match(niceness, e) ==
    CASE e = 0     -> [res |-> "Ok", val |-> niceness]
      [] e = ESRCH -> [res |-> "NotFound", val |-> 0]
      [] OTHER     -> [res |-> "Abort", val |-> 0]

unix_priority(o, e) ==
    { LET after == errno_after(clear_errno(e), a)
          m     == priority_match(a.ret, after)
      IN  Outcome(m.res, m.val, after, a)
      : a \in getpriority(o) }

\* if SetPriorityClass(..) == 0 { match GetLastError() { errcode => todo!() } }
\* else { dbg!(self.priority(), priority); Ok(()) }
win_set_priority(o, c, e, priority) ==
    { Outcome(IF a.ret = 0 THEN "Abort" ELSE "Ok", 0, errno_after(e, a), a)
      : a \in SetPriorityClass(o, c, priority) }

\* if priority == 0 { Err(NotFound) } else { Ok(Priority { priority }) }
win_priority(o, e) ==
    { Outcome(IF a.ret = 0 THEN "NotFound" ELSE "Ok",
              IF a.ret = 0 THEN 0 ELSE a.ret, errno_after(e, a), a)
      : a \in GetPriorityClass(o) }

\* src/lib.rs: Process::set_priority, Process::priority
set_priority(plat, o, c, e, priority) ==
    IF plat = "unix" THEN unix_set_priority(o, c, e, priority)
    ELSE win_set_priority(o, c, e, priority)

priority(plat, o, e) ==
    IF plat = "unix" THEN unix_priority(o, e) ELSE win_priority(o, e)

(***************************************************************************)
(* Priority as a caller uses it: p is the Priority in hand, q a second one *)
(* (the one held before the last step, or read earlier), it the sequence   *)
(* returned by the last call of higher()/lower() on p.                     *)
(***************************************************************************)
NoStep == [dir |-> "none", k |-> 0]

PriorityIdle ==
    /\ p = 0 /\ q = 0 /\ it = <<>> /\ dir = "none" /\ via = NoStep

\* let p = Priority::normal();
InitPriority ==
    /\ p = normal(platform)
    /\ q = normal(platform)
    /\ it = <<>>
    /\ dir = "none"
    /\ via = NoStep

\* let p = process.priority().unwrap(): any level the process may be at
ReadPriority ==
    /\ \E level \in Priorities(platform) :
         \E r \in priority(platform, [alive |-> TRUE, level |-> level], 0) :
            /\ r.res = "Ok"
            /\ p' = r.val
    /\ q' = p
    /\ it' = <<>>
    /\ dir' = "none"
    /\ via' = NoStep
    /\ UNCHANGED <<platform, process_vars, cli_vars>>

\* Priority::normal()
CallNormal ==
    /\ p' = normal(platform)
    /\ q' = p
    /\ it' = <<>>
    /\ dir' = "none"
    /\ via' = NoStep
    /\ UNCHANGED <<platform, process_vars, cli_vars>>

\* let it = p.higher();
CallHigher ==
    /\ it' = higher(platform, p)
    /\ dir' = "higher"
    /\ UNCHANGED <<p, q, via>>
    /\ UNCHANGED <<platform, process_vars, cli_vars>>

\* let it = p.lower();
CallLower ==
    /\ it' = lower(platform, p)
    /\ dir' = "lower"
    /\ UNCHANGED <<p, q, via>>
    /\ UNCHANGED <<platform, process_vars, cli_vars>>

\* let p = it.nth(k - 1).unwrap();
TakeNth ==
    /\ \E k \in 1 .. Len(it) :
        /\ q' = p
        /\ p' = it[k]
        /\ via' = [dir |-> dir, k |-> k]
        /\ it' = <<>>
        /\ dir' = "none"
    /\ UNCHANGED <<platform, process_vars, cli_vars>>


(***************************************************************************)
(* A Process handle in use.  target is what it was made from: "current"    *)
(* (Process::current()) or "child" (Process::from(&mut child)).  last      *)
(* records the latest event on the process - a call through the handle or  *)
(* something the rest of the system did to it - and, in prev, the event    *)
(* before it.                                                              *)
(***************************************************************************)
NoPrev == [op |-> "none", res |-> "-", normal |-> FALSE]

NoEvent ==
    [op |-> "none", arg |-> 0, before |-> 0, code |-> 0, res |-> "-", val |-> 0,
     prev |-> NoPrev]

Summary(ev) ==
    [op |-> ev.op, res |-> ev.res,
     normal |-> ev.op = "set_priority" /\ eq(platform, ev.arg, normal(platform))]

Event(op, arg, r) ==
    [op |-> op, arg |-> arg, before |-> os.level, code |-> r.code, res |-> r.res,
     val |-> r.val, prev |-> Summary(last)]

Aborted == last.res = "Abort"

ProcessIdle ==
    /\ target = "none" /\ cred = "none" /\ os = [alive |-> FALSE, level |-> 0]
    /\ errno = 0 /\ last = NoEvent

\* Process::current() / Process::from(&mut child)
InitProcess ==
    /\ target \in {"current", "child"}
    /\ cred \in (IF target = "current" THEN {"root", "owner"}
                 ELSE {"root", "owner", "other"})
    /\ os \in [alive : {TRUE}, level : Priorities(platform)]
    /\ errno = 0
    /\ last = NoEvent

SetPriority ==
    /\ ~Aborted
    /\ \E arg \in Priorities(platform) :
         \E r \in set_priority(platform, os, cred, errno, arg) :
            /\ os' = r.os
            /\ errno' = r.errno
            /\ last' = Event("set_priority", arg, r)
    /\ UNCHANGED <<target, cred>>
    /\ UNCHANGED <<platform, priority_vars, cli_vars>>

GetPriority ==
    /\ ~Aborted
    /\ \E r \in priority(platform, os, errno) :
            /\ os' = r.os
            /\ errno' = r.errno
            /\ last' = Event("priority", 0, r)
    /\ UNCHANGED <<target, cred>>
    /\ UNCHANGED <<platform, priority_vars, cli_vars>>

\* the child the handle was made from ends
ChildExits ==
    /\ ~Aborted
    /\ target = "child"
    /\ os.alive
    /\ os' = [os EXCEPT !.alive = FALSE]
    /\ last' = Event("exit", 0, [code |-> 0, res |-> "-", val |-> 0])
    /\ UNCHANGED <<target, cred, errno>>
    /\ UNCHANGED <<platform, priority_vars, cli_vars>>

\* someone else changes the priority of the process
OtherWriter ==
    /\ ~Aborted
    /\ os.alive
    /\ \E l \in Priorities(platform) \ {os.level} :
         os' = [os EXCEPT !.level = l]
    /\ last' = Event("other_write", 0, [code |-> 0, res |-> "-", val |-> 0])
    /\ UNCHANGED <<target, cred, errno>>
    /\ UNCHANGED <<platform, priority_vars, cli_vars>>


(***************************************************************************)
(* src/bin/nice.rs.  The increment is an i64, kept here as four 16-bit     *)
(* limbs in two's complement, least significant first, so that negation    *)
(* and the cast to usize act on the bits as the machine does.  profile is  *)
(* the build: whether arithmetic overflow is checked (a debug build) and   *)
(* the width of usize on the target.                                       *)
(***************************************************************************)
MaxIncrement == 41

Limb == 2 ^ 16

TopBit == 2 ^ 15

\* the i64 of a small integer
I64(v) ==
    IF v >= 0
    THEN <<v % Limb, (v \div Limb) % Limb, 0, 0>>
    ELSE LET m == (-v) - 1
         IN  <<(Limb - 1) - (m % Limb), (Limb - 1) - ((m \div Limb) % Limb),
               Limb - 1, Limb - 1>>

I64_MIN == <<0, 0, 0, TopBit>>

I64_MAX == <<Limb - 1, Limb - 1, Limb - 1, TopBit - 1>>

TwoTo32 == <<0, 0, 1, 0>>

MinusTwoTo32 == <<0, 0, Limb - 1, Limb - 1>>

\* n >= 0
is_non_negative(x) == x[4] < TopBit

\* two's complement negation, wrapping
wrapping_neg(x) ==
    LET s1 == ((Limb - 1) - x[1]) + 1
        s2 == ((Limb - 1) - x[2]) + (s1 \div Limb)
        s3 == ((Limb - 1) - x[3]) + (s2 \div Limb)
        s4 == ((Limb - 1) - x[4]) + (s3 \div Limb)
    IN  <<s1 % Limb, s2 % Limb, s3 % Limb, s4 % Limb>>

\* -n: <<>> when the negation panics (overflow checks on, n = i64::MIN)
neg(x, prof) ==
    IF prof.overflow_checks /\ x = I64_MIN THEN <<>> ELSE <<wrapping_neg(x)>>

\* x as usize: the low bits that fit
as_usize(x, prof) ==
    IF prof.usize_bits = 64 THEN x ELSE <<x[1], x[2], 0, 0>>

\* .take(k): the first k elements, all of them when there are fewer
take(s, k) ==
    IF k[2] = 0 /\ k[3] = 0 /\ k[4] = 0 /\ k[1] < Len(s)
    THEN SubSeq(s, 1, k[1])
    ELSE s

\* .last().unwrap_or(Priority::normal())
last_or_normal(plat, s) == IF s = <<>> THEN normal(plat) ELSE s[Len(s)]

\* the closure of .map(|n: i64| ..): <<priority>>, or <<>> when it panics
increment_priority(plat, x, prof) ==
    IF is_non_negative(x)
    THEN <<last_or_normal(plat, take(lower(plat, normal(plat)), as_usize(x, prof)))>>
    ELSE LET m == neg(x, prof)
         IN  IF m = <<>> THEN <<>>
             ELSE <<last_or_normal(plat,
                        take(higher(plat, normal(plat)), as_usize(m[1], prof)))>>

Increments ==
    { I64(v) : v \in (0 - MaxIncrement) .. MaxIncrement }
        \cup { I64(999), I64(-999), I64_MIN, I64_MAX, TwoTo32, MinusTwoTo32 }

Profiles == [overflow_checks : BOOLEAN, usize_bits : {32, 64}]

ExitCodes == {0, 1, 7}

CliIdle ==
    /\ pc = "none" /\ profile = [overflow_checks |-> FALSE, usize_bits |-> 64]
    /\ n = <<>> /\ increment = <<>> /\ child_code = 0 /\ exit_code = -1

\* nice -n <increment> <utility>: n is <<x>> for an increment that parses as
\* the i64 x and <<>> for one that does not
InitCli ==
    /\ pc = "increment"
    /\ profile \in Profiles
    /\ n \in { <<x>> : x \in Increments } \cup { <<>> }
    /\ increment = <<>>
    /\ child_code \in ExitCodes
    /\ exit_code = -1
    /\ target = "child"
    /\ cred = "none"
    /\ os = [alive |-> FALSE, level |-> 0]
    /\ errno = 0
    /\ last = NoEvent

\* the increment is parsed and turned into a Priority
ComputeIncrement ==
    /\ pc = "increment"
    /\ IF n = <<>>
       THEN /\ pc' = "exited" /\ exit_code' = 1 /\ increment' = <<>>
       ELSE LET r == increment_priority(platform, n[1], profile)
            IN  IF r = <<>>
                THEN /\ pc' = "panicked" /\ exit_code' = 101 /\ increment' = <<>>
                ELSE /\ pc' = "spawn" /\ increment' = r /\ UNCHANGED exit_code
    /\ UNCHANGED <<profile, n, child_code, process_vars>>
    /\ UNCHANGED <<platform, priority_vars>>

\* Command::new(&cmd).args(args).spawn(): a child at the priority it inherits,
\* or exit code 127
Spawn ==
    /\ pc = "spawn"
    /\ \/ /\ pc' = "exited" /\ exit_code' = 127
          /\ UNCHANGED process_vars
       \/ /\ pc' = "set_priority"
          /\ cred' \in {"root", "owner", "other"}
          /\ os' \in [alive : {TRUE}, level : Priorities(platform)]
          /\ UNCHANGED <<exit_code, target, errno, last>>
    /\ UNCHANGED <<profile, n, increment, child_code>>
    /\ UNCHANGED <<platform, priority_vars>>

\* the child may end before its priority is set
ChildEndsEarly ==
    /\ pc = "set_priority"
    /\ os.alive
    /\ os' = [os EXCEPT !.alive = FALSE]
    /\ UNCHANGED <<target, cred, errno, last, cli_vars>>
    /\ UNCHANGED <<platform, priority_vars>>

\* if let Err(e) = Process::from(&mut child).set_priority(priority) { eprintln }
SetChildPriority ==
    /\ pc = "set_priority"
    /\ \E r \in set_priority(platform, os, cred, errno, increment[1]) :
         /\ os' = r.os
         /\ errno' = r.errno
         /\ last' = Event("set_priority", increment[1], r)
         /\ IF r.res = "Abort"
            THEN pc' = "panicked" /\ exit_code' = 101
            ELSE pc' = "wait" /\ UNCHANGED exit_code
    /\ UNCHANGED <<target, cred, profile, n, increment, child_code>>
    /\ UNCHANGED <<platform, priority_vars>>

\* child.wait().map(|status| status.code().unwrap()); std::process::exit(n)
Wait ==
    /\ pc = "wait"
    /\ pc' = "exited"
    /\ exit_code' = child_code
    /\ os' = [os EXCEPT !.alive = FALSE]
    /\ UNCHANGED <<target, cred, errno, last, profile, n, increment, child_code>>
    /\ UNCHANGED <<platform, priority_vars>>

(***************************************************************************)
(* Specifications                                                          *)
(***************************************************************************)
\* Priority values and their stepping
InitP == platform \in Platforms /\ InitPriority /\ ProcessIdle /\ CliIdle

NextP ==
    \/ CallNormal
    \/ ReadPriority
    \/ CallHigher
    \/ CallLower
    \/ TakeNth

SpecPriority == InitP /\ [][NextP]_vars

\* a Process handle against the kernel
Init == platform \in Platforms /\ InitProcess /\ PriorityIdle /\ CliIdle

Next ==
    \/ SetPriority
    \/ GetPriority
    \/ ChildExits
    \/ OtherWriter

Spec == Init /\ [][Next]_vars

\* the nice front-end
InitC == platform \in Platforms /\ InitCli /\ PriorityIdle

NextC ==
    \/ ComputeIncrement
    \/ Spawn
    \/ ChildEndsEarly
    \/ SetChildPriority
    \/ Wait

SpecCli == InitC /\ [][NextC]_vars


(***************************************************************************)
(* Properties of Priority (SpecPriority)                                   *)
(***************************************************************************)
MostFavored(plat) ==
    IF plat = "unix" THEN NICE_MOST_FAVORED ELSE REALTIME_PRIORITY_CLASS

LeastFavored(plat) ==
    IF plat = "unix" THEN NICE_LEAST_FAVORED ELSE IDLE_PRIORITY_CLASS

\* the levels of the platform's scale, background-mode markers excluded
Levels(plat) ==
    IF plat = "unix" THEN NICE_MOST_FAVORED .. NICE_LEAST_FAVORED ELSE WinClasses

\* b is the level next to a in the favored direction
OneHigher(plat, a, b) ==
    IF plat = "unix" THEN b = a - 1 ELSE to_relative(b) = to_relative(a) + 1

Elements(s) == { s[i] : i \in 1 .. Len(s) }

\* everything reachable from the values of S by elements of higher()/lower()
RECURSIVE Reachable(_, _)
Reachable(plat, S) ==
    LET T == S \cup UNION { Elements(higher(plat, x)) \cup Elements(lower(plat, x))
                            : x \in S }
    IN  IF T = S THEN S ELSE Reachable(plat, T)

\* C1: the sequence returned by p.higher() is strictly ascending in
\* Priority's own ordering - every element compares Greater than p and than
\* every earlier element - and the one returned by p.lower() is strictly
\* descending.
C1_StrictlyMonotonic ==
    /\ dir = "higher" =>
         \A i \in 1 .. Len(it) :
            /\ cmp(platform, it[i], p) = "Greater"
            /\ \A j \in 1 .. i - 1 : cmp(platform, it[i], it[j]) = "Greater"
    /\ dir = "lower" =>
         \A i \in 1 .. Len(it) :
            /\ cmp(platform, it[i], p) = "Less"
            /\ \A j \in 1 .. i - 1 : cmp(platform, it[i], it[j]) = "Less"

\* C2: round trip - when p was reached as the first element of q.higher(),
\* p.lower() is not empty and its first element equals q; when p was reached
\* as the first element of q.lower(), the first element of p.higher() equals q.
C2_RoundTrip ==
    /\ (via.dir = "higher" /\ via.k = 1) =>
         LET back == lower(platform, p)
         IN  back # <<>> /\ eq(platform, back[1], q)
    /\ (via.dir = "lower" /\ via.k = 1) =>
         LET back == higher(platform, p)
         IN  back # <<>> /\ eq(platform, back[1], q)

\* a first step up has been taken from a priority that is not normal
C2_Witness ==
    /\ via = [dir |-> "higher", k |-> 1]
    /\ ~eq(platform, q, normal(platform))
    /\ lower(platform, p) # <<>>

\* C3: from every Priority p a value equal to Priority::normal() can be
\* reached by taking elements of higher() or lower(), in finitely many steps.
C3_NormalReachable ==
    \E r \in Reachable(platform, {p}) : eq(platform, r, normal(platform))

\* C7: two Priority values are equal (==) exactly when the total order
\* compares them as Equal.
C7_EqMatchesOrd ==
    eq(platform, p, q) <=> (cmp(platform, p, q) = "Equal")

\* C10: p.higher() moves one level per element and stops only at the bound:
\* it is empty exactly when p is the most-favored priority and otherwise ends
\* at the most-favored priority; p.lower() likewise towards the least-favored
\* priority.  No element is outside the platform's scale or a background-mode
\* marker.
C10_StepsToTheBound ==
    /\ dir = "higher" =>
         /\ (it = <<>>) <=> eq(platform, p, MostFavored(platform))
         /\ it # <<>> => eq(platform, it[Len(it)], MostFavored(platform))
         /\ \A i \in 1 .. Len(it) :
               /\ it[i] \in Levels(platform)
               /\ OneHigher(platform, IF i = 1 THEN p ELSE it[i - 1], it[i])
    /\ dir = "lower" =>
         /\ (it = <<>>) <=> eq(platform, p, LeastFavored(platform))
         /\ it # <<>> => eq(platform, it[Len(it)], LeastFavored(platform))
         /\ \A i \in 1 .. Len(it) :
               /\ it[i] \in Levels(platform)
               /\ OneHigher(platform, it[i], IF i = 1 THEN p ELSE it[i - 1])

(***************************************************************************)
(* Properties of the Process handle (Spec)                                 *)
(***************************************************************************)
IsCall == last.op \in {"set_priority", "priority"}

\* the kernel turned the last set_priority down for want of rights
Refused ==
    /\ last.op = "set_priority"
    /\ IF platform = "unix" THEN last.code \in {EACCES, EPERM}
       ELSE os.alive /\ last.code = ERROR_ACCESS_DENIED

\* C4: on a handle whose process has exited, priority() returns
\* Err(NotFound) and set_priority() returns Err(Unchanged::NotFound);
\* neither aborts.
C4_ExitedIsNotFound ==
    (IsCall /\ ~os.alive) => last.res = "NotFound"

\* C5: for the current process, priority() called right after
\* set_priority(Priority::normal()) returns Ok of a value equal to
\* Priority::normal(), whatever the priority was before.
C5_NormalReadBack ==
    (/\ target = "current"
     /\ last.op = "priority"
     /\ last.prev.op = "set_priority"
     /\ last.prev.normal)
        => (last.res = "Ok" /\ eq(platform, last.val, normal(platform)))

\* C5, amended: for the current process, priority() called right after a
\* set_priority(Priority::normal()) that returned Ok(()) returns Ok of a value
\* equal to Priority::normal().
C5_NormalReadBackAfterOk ==
    (/\ target = "current"
     /\ last.op = "priority"
     /\ last.prev.op = "set_priority"
     /\ last.prev.normal
     /\ last.prev.res = "Ok")
        => (last.res = "Ok" /\ eq(platform, last.val, normal(platform)))

\* the current process has read its priority right after setting it to
\* normal with success
C5_Witness ==
    /\ target = "current"
    /\ last.op = "priority"
    /\ last.prev = [op |-> "set_priority", res |-> "Ok", normal |-> TRUE]
    /\ last.res = "Ok"

\* C8: a set_priority() the kernel refuses for want of rights returns
\* Err(Unchanged::PermissionDenied), does not abort, and leaves the priority
\* of the process as it was.
C8_RefusedIsPermissionDenied ==
    Refused => (last.res = "PermissionDenied" /\ os.level = last.before)

ErrnoCodes == {0, EPERM, ESRCH, EACCES}

\* C9: on the niceness variant the outcome of priority() depends only on the
\* indicator its own query leaves: Ok of the queried niceness for a live
\* process, whatever an earlier call left in the indicator; Err(NotFound)
\* exactly when the indicator after the query is ESRCH; an abort for any
\* other non-zero indicator.
C9_IndicatorOfOwnQuery ==
    /\ (platform = "unix" /\ last.op = "priority") =>
          /\ os.alive => (last.res = "Ok" /\ last.val = os.level /\ errno = 0)
          /\ (last.res = "NotFound") <=> (errno = ESRCH)
          /\ (last.res = "Abort") <=> (errno \notin {0, ESRCH})
    /\ \A v \in Levels("unix") \cup {-1} :
          \A e \in ErrnoCodes :
             /\ e = 0 => priority_match(v, e) = [res |-> "Ok", val |-> v]
             /\ e = ESRCH => priority_match(v, e).res = "NotFound"
             /\ e \notin {0, ESRCH} => priority_match(v, e).res = "Abort"

\* a niceness of -1 has been read right after a refused set_priority
C9_Witness ==
    /\ platform = "unix"
    /\ last.op = "priority"
    /\ last.prev = [op |-> "set_priority", res |-> "PermissionDenied",
                    normal |-> FALSE]
    /\ last.res = "Ok"
    /\ last.val = -1

(***************************************************************************)
(* Properties of the nice front-end (SpecCli)                              *)
(***************************************************************************)
\* the |x|-th element of s, its last when there are fewer; x given as i64
Clamped(s, x) ==
    IF is_non_negative(x)
    THEN IF x[2] = 0 /\ x[3] = 0 /\ x[4] = 0 /\ x[1] <= Len(s)
         THEN s[x[1]] ELSE s[Len(s)]
    ELSE IF x[2] = Limb - 1 /\ x[3] = Limb - 1 /\ x[4] = Limb - 1 /\ x[1] # 0
            /\ Limb - x[1] <= Len(s)
         THEN s[Limb - x[1]] ELSE s[Len(s)]

ExpectedIncrement(plat, x) ==
    IF x = I64(0) THEN normal(plat)
    ELSE IF is_non_negative(x) THEN Clamped(lower(plat, normal(plat)), x)
    ELSE Clamped(higher(plat, normal(plat)), x)

\* C6: for increment n the front-end computes the n-th element of lower()
\* from normal() when n > 0, the |n|-th element of higher() when n < 0, the
\* last element when |n| exceeds what the direction offers (never an error),
\* and normal() for n = 0.
C6_Clamping ==
    (pc # "increment" /\ n # <<>>) =>
        increment = <<ExpectedIncrement(platform, n[1])>>

====
